---- MODULE Spec2Model ----
(***************************************************************************)
(* django-denormalized: incremental maintenance of denormalized aggregate  *)
(* fields (Count / Sum / Min / Max) kept on a parent row (Group, Team) and *)
(* updated from the post_save / post_delete signals of the child (Member). *)
(*                                                                         *)
(* The store is modelled as three tables; every SQL statement the library  *)
(* issues (INSERT / UPDATE / DELETE of a Member, UPDATE of a parent with   *)
(* F-expressions or a correlated subquery, SELECT on refresh) is atomic.   *)
(***************************************************************************)
EXTENDS Integers, Sequences, FiniteSets, TLC

\* ---------------------------------------------------------------- bounds
MaxMembers == 2      \* Member rows ever inserted (primary keys 1..MaxMembers)
MaxPoints == 1       \* Member.points ranges over 0..MaxPoints
MaxOps == 3          \* lifecycle events handled in one behaviour
NumProcs == 2        \* concurrent writers

\* ------------------------------------------------------------- constants
\* Python None / SQL NULL: a number no field, key or sum of the model reaches.
NULL == -100
ENTERING == 1
CHANGING == 0
LEAVING == -1

MemberIds == 1..MaxMembers
\* The parents of the test fixture: self.group and a second group; one team.
\* One event touches at most the old and the new parent of one child.
GroupIds == {1, 2}
TeamIds == {1}
Points == 0..MaxPoints
Procs == 1..NumProcs

\* Trackers declared on Member.group, in declaration order.
GroupTrackers ==
    << [fk |-> "group", field |-> "members_count", aggregate |-> "count",
        callback |-> "active", query |-> "active"],
       [fk |-> "group", field |-> "points_sum", aggregate |-> "sum",
        callback |-> "active", query |-> "all"],
       [fk |-> "group", field |-> "points_min", aggregate |-> "min",
        callback |-> "active", query |-> "active"],
       [fk |-> "group", field |-> "points_max", aggregate |-> "max",
        callback |-> "active", query |-> "active"] >>

\* Trackers declared on Member.team, in declaration order.
TeamTrackers ==
    << [fk |-> "team", field |-> "points_sum", aggregate |-> "sum",
        callback |-> "true", query |-> "all"],
       [fk |-> "team", field |-> "members_count", aggregate |-> "count",
        callback |-> "true", query |-> "all"] >>

\* Group() and Team() as created with their field defaults.
NewGroup == [members_count |-> 0, points_sum |-> 0,
             points_min |-> NULL, points_max |-> NULL]
NewTeam == [points_sum |-> 0, members_count |-> 0]

\* A Member that is not there (placeholder for "no previous version").
NoInstance == [pk |-> NULL, group |-> NULL, team |-> NULL,
               active |-> FALSE, points |-> 0]

\* ------------------------------------------------------ query evaluation
\* tracker.callback(obj)
Callback(t, obj) == IF t.callback = "active" THEN obj.active ELSE TRUE

\* tracker.query applied to a stored row
QueryMatch(t, row) == IF t.query = "active" THEN row.active ELSE TRUE

RECURSIVE SumPoints(_, _)
SumPoints(table, S) ==
    IF S = {} THEN 0
    ELSE LET k == CHOOSE x \in S : TRUE
         IN table[k].points + SumPoints(table, S \ {k})

MinOfPoints(table, S) ==
    CHOOSE v \in {table[k].points : k \in S} :
        \A w \in {table[k].points : k \in S} : v <= w

MaxOfPoints(table, S) ==
    CHOOSE v \in {table[k].points : k \in S} :
        \A w \in {table[k].points : k \in S} : v >= w

\* SQL aggregate of `kind` over the rows S of `table`, grouped by the foreign
\* key: no row in the group gives no result row, i.e. NULL.
Aggregate(kind, table, S) ==
    IF S = {} THEN NULL
    ELSE CASE kind = "count" -> Cardinality(S)
           [] kind = "sum" -> SumPoints(table, S)
           [] kind = "min" -> MinOfPoints(table, S)
           [] kind = "max" -> MaxOfPoints(table, S)

\* -------------------------------------------------------- update expressions
\* The value _get_delta returns: None, F(field) + c, Coalesce(Least(F, v), v),
\* Coalesce(Greatest(F, v), v) or the full-aggregate Subquery.
NoDelta == [op |-> "none", arg |-> 0, excl |-> NULL]
FPlus(c) == [op |-> "add", arg |-> c, excl |-> NULL]
CoalesceLeast(v) == [op |-> "least", arg |-> v, excl |-> NULL]
CoalesceGreatest(v) == [op |-> "greatest", arg |-> v, excl |-> NULL]
FullAggregate(excl) == [op |-> "subquery", arg |-> 0, excl |-> excl]
\* In place of a value: _get_delta raised NotImplementedError.
NotImplementedError == [op |-> "raise", arg |-> 0, excl |-> NULL]

\* _get_foreign_object without the ObjectDoesNotExist handler's None: the
\* reference is returned whether or not its target row exists.
GetForeignObjectUnchecked(par, t, instance) == instance[t.fk]

\* _get_foreign_object: the referenced parent, None when the reference is
\* null or its target row does not exist.
GetForeignObject(par, t, instance) ==
    IF instance[t.fk] = NULL THEN NULL
    ELSE IF instance[t.fk] \in DOMAIN par[t.fk] THEN instance[t.fk]
    ELSE NULL

\* An instance whose `points` attribute holds the expression F('points') + c.
\* `persisted` is the value refresh_from_db(fields=('points',)) reads for it;
\* `points` keeps the number the attribute held before the assignment.
WithExpression(instance, c, persisted) ==
    [pk |-> instance.pk, group |-> instance.group, team |-> instance.team,
     active |-> instance.active, points |-> instance.points,
     expression |-> c, persisted |-> persisted]

IsExpression(instance) == "expression" \in DOMAIN instance

\* _get_value_from_instance that never reloads the field.
GetValueFromInstanceNoReload(instance) == instance.points

\* _get_value_from_instance: an expression-valued attribute is reloaded from
\* the store first.
GetValueFromInstance(instance) ==
    IF IsExpression(instance) THEN instance.persisted ELSE instance.points

\* _get_full_aggregate
GetFullAggregate(par, t, instance, exclude) ==
    IF GetForeignObject(par, t, instance) = NULL THEN NoDelta
    ELSE FullAggregate(IF exclude THEN instance.pk ELSE NULL)

\* A count delta that forgets the sign of the mode.
GetCountDeltaUnsigned(par, t, instance, mode, previous) ==
    IF mode = CHANGING THEN NoDelta ELSE FPlus(1)

\* _get_count_delta
GetCountDelta(par, t, instance, mode, previous) ==
    IF mode = CHANGING THEN NoDelta ELSE FPlus(mode)

\* A sum delta that forgets the sign of the mode.
GetSumDeltaUnsigned(par, t, instance, mode, previous) ==
    LET new_value == GetValueFromInstance(instance)
    IN IF mode = CHANGING
       THEN LET old_value == GetValueFromInstance(previous)
            IN IF new_value - old_value = 0 THEN NoDelta
               ELSE FPlus(new_value - old_value)
       ELSE FPlus(new_value)

\* _get_sum_delta
GetSumDelta(par, t, instance, mode, previous) ==
    LET new_value == GetValueFromInstance(instance)
    IN IF mode = CHANGING
       THEN LET old_value == GetValueFromInstance(previous)
            IN IF new_value - old_value = 0 THEN NoDelta
               ELSE FPlus(new_value - old_value)
       ELSE FPlus(new_value * mode)

\* A min delta that never falls back to the full aggregate on CHANGING.
GetMinDeltaNoRecompute(par, t, instance, mode, previous) ==
    LET new_value == GetValueFromInstance(instance)
    IN IF mode = LEAVING THEN GetFullAggregate(par, t, instance, TRUE)
       ELSE CoalesceLeast(new_value)

\* _get_min_delta
GetMinDelta(par, t, instance, mode, previous) ==
    LET new_value == GetValueFromInstance(instance)
    IN IF mode = LEAVING THEN GetFullAggregate(par, t, instance, TRUE)
       ELSE IF mode = ENTERING THEN CoalesceLeast(new_value)
       ELSE IF GetValueFromInstance(previous) > new_value
            THEN CoalesceLeast(new_value)
       ELSE GetFullAggregate(par, t, instance, FALSE)

\* A max delta that never falls back to the full aggregate on CHANGING.
GetMaxDeltaNoRecompute(par, t, instance, mode, previous) ==
    LET new_value == GetValueFromInstance(instance)
    IN IF mode = LEAVING THEN GetFullAggregate(par, t, instance, TRUE)
       ELSE CoalesceGreatest(new_value)

\* _get_max_delta
GetMaxDelta(par, t, instance, mode, previous) ==
    LET new_value == GetValueFromInstance(instance)
    IN IF mode = LEAVING THEN GetFullAggregate(par, t, instance, TRUE)
       ELSE IF mode = ENTERING THEN CoalesceGreatest(new_value)
       ELSE IF GetValueFromInstance(previous) < new_value
            THEN CoalesceGreatest(new_value)
       ELSE GetFullAggregate(par, t, instance, FALSE)

\* _get_delta: dispatch on the aggregate's name
GetDelta(par, t, instance, mode, previous) ==
    CASE t.aggregate = "count" -> GetCountDelta(par, t, instance, mode, previous)
      [] t.aggregate = "sum" -> GetSumDelta(par, t, instance, mode, previous)
      [] t.aggregate = "min" -> GetMinDelta(par, t, instance, mode, previous)
      [] t.aggregate = "max" -> GetMaxDelta(par, t, instance, mode, previous)
      [] OTHER -> NotImplementedError

\* _update_value that tests the delta only and keeps a unit for no parent.
UpdateValueNoParentCheck(t, foreign_object, mode, delta) ==
    IF delta.op = "none" THEN << >>
    ELSE << [fk |-> t.fk, parent |-> foreign_object, field |-> t.field,
             mode |-> mode, expr |-> delta] >>

\* _update_value: the UpdateUnit (foreign object, {field: delta}), or nothing.
\* The unit also records the mode it was computed for. An exception raised
\* while the delta argument was computed leaves through the call whatever
\* the foreign object is.
UpdateValue(t, foreign_object, mode, delta) ==
    IF delta.op # "raise" /\ (foreign_object = NULL \/ delta.op = "none")
    THEN << >>
    ELSE << [fk |-> t.fk, parent |-> foreign_object, field |-> t.field,
             mode |-> mode, expr |-> delta] >>

\* track_changes whose parent-changed branch takes the child out of the new
\* parent instead of the old one.
TrackChangesLeaveNewParent(par, t, instance, old_instance, created, deleted) ==
    LET foreign_object == GetForeignObject(par, t, instance)
        is_suitable == Callback(t, instance)
    IN IF created
       THEN IF ~is_suitable THEN << >>
            ELSE UpdateValue(t, foreign_object, ENTERING,
                             GetDelta(par, t, instance, ENTERING, NoInstance))
       ELSE IF deleted
       THEN IF ~is_suitable THEN << >>
            ELSE UpdateValue(t, foreign_object, LEAVING,
                             GetDelta(par, t, instance, LEAVING, NoInstance))
       ELSE
         LET old_suitable == Callback(t, old_instance)
             old_foreign_object == GetForeignObject(par, t, old_instance)
             mode == IF is_suitable THEN ENTERING ELSE LEAVING
         IN IF foreign_object = old_foreign_object /\ is_suitable # old_suitable
            THEN UpdateValue(t, foreign_object, mode,
                             GetDelta(par, t, instance, mode, NoInstance))
            ELSE IF foreign_object # old_foreign_object
            THEN (IF old_suitable
                  THEN UpdateValue(t, foreign_object, LEAVING,
                                   GetDelta(par, t, old_instance, LEAVING, NoInstance))
                  ELSE << >>)
                 \o
                 (IF is_suitable
                  THEN UpdateValue(t, foreign_object, ENTERING,
                                   GetDelta(par, t, instance, ENTERING, NoInstance))
                  ELSE << >>)
            ELSE IF is_suitable
            THEN UpdateValue(t, foreign_object, CHANGING,
                             GetDelta(par, t, instance, CHANGING, old_instance))
            ELSE << >>

\* track_changes whose parent-changed branch ignores suitability.
TrackChangesMoveIgnoresSuitable(par, t, instance, old_instance, created, deleted) ==
    LET foreign_object == GetForeignObject(par, t, instance)
        is_suitable == Callback(t, instance)
    IN IF created
       THEN IF ~is_suitable THEN << >>
            ELSE UpdateValue(t, foreign_object, ENTERING,
                             GetDelta(par, t, instance, ENTERING, NoInstance))
       ELSE IF deleted
       THEN IF ~is_suitable THEN << >>
            ELSE UpdateValue(t, foreign_object, LEAVING,
                             GetDelta(par, t, instance, LEAVING, NoInstance))
       ELSE
         LET old_suitable == Callback(t, old_instance)
             old_foreign_object == GetForeignObject(par, t, old_instance)
             mode == IF is_suitable THEN ENTERING ELSE LEAVING
         IN IF foreign_object = old_foreign_object /\ is_suitable # old_suitable
            THEN UpdateValue(t, foreign_object, mode,
                             GetDelta(par, t, instance, mode, NoInstance))
            ELSE IF foreign_object # old_foreign_object
            THEN UpdateValue(t, old_foreign_object, LEAVING,
                             GetDelta(par, t, old_instance, LEAVING, NoInstance))
                 \o
                 UpdateValue(t, foreign_object, ENTERING,
                             GetDelta(par, t, instance, ENTERING, NoInstance))
            ELSE IF is_suitable
            THEN UpdateValue(t, foreign_object, CHANGING,
                             GetDelta(par, t, instance, CHANGING, old_instance))
            ELSE << >>

\* track_changes whose last branch does not test the callback: an unchanged
\* parent and unchanged eligibility always count as CHANGING.
TrackChangesChangingIgnoresSuitable(par, t, instance, old_instance, created, deleted) ==
    LET foreign_object == GetForeignObject(par, t, instance)
        is_suitable == Callback(t, instance)
    IN IF created
       THEN IF ~is_suitable THEN << >>
            ELSE UpdateValue(t, foreign_object, ENTERING,
                             GetDelta(par, t, instance, ENTERING, NoInstance))
       ELSE IF deleted
       THEN IF ~is_suitable THEN << >>
            ELSE UpdateValue(t, foreign_object, LEAVING,
                             GetDelta(par, t, instance, LEAVING, NoInstance))
       ELSE
         LET old_suitable == Callback(t, old_instance)
             old_foreign_object == GetForeignObject(par, t, old_instance)
             mode == IF is_suitable THEN ENTERING ELSE LEAVING
         IN IF foreign_object = old_foreign_object /\ is_suitable # old_suitable
            THEN UpdateValue(t, foreign_object, mode,
                             GetDelta(par, t, instance, mode, NoInstance))
            ELSE IF foreign_object # old_foreign_object
            THEN (IF old_suitable
                  THEN UpdateValue(t, old_foreign_object, LEAVING,
                                   GetDelta(par, t, old_instance, LEAVING, NoInstance))
                  ELSE << >>)
                 \o
                 (IF is_suitable
                  THEN UpdateValue(t, foreign_object, ENTERING,
                                   GetDelta(par, t, instance, ENTERING, NoInstance))
                  ELSE << >>)
            ELSE UpdateValue(t, foreign_object, CHANGING,
                             GetDelta(par, t, instance, CHANGING, old_instance))

\* DenormalizedTracker.track_changes: the units of one tracker for one event.
TrackChanges(par, t, instance, old_instance, created, deleted) ==
    LET foreign_object == GetForeignObject(par, t, instance)
        is_suitable == Callback(t, instance)
    IN IF created
       THEN IF ~is_suitable THEN << >>
            ELSE UpdateValue(t, foreign_object, ENTERING,
                             GetDelta(par, t, instance, ENTERING, NoInstance))
       ELSE IF deleted
       THEN IF ~is_suitable THEN << >>
            ELSE UpdateValue(t, foreign_object, LEAVING,
                             GetDelta(par, t, instance, LEAVING, NoInstance))
       ELSE
         LET old_suitable == Callback(t, old_instance)
             old_foreign_object == GetForeignObject(par, t, old_instance)
             mode == IF is_suitable THEN ENTERING ELSE LEAVING
         IN IF foreign_object = old_foreign_object /\ is_suitable # old_suitable
            THEN UpdateValue(t, foreign_object, mode,
                             GetDelta(par, t, instance, mode, NoInstance))
            ELSE IF foreign_object # old_foreign_object
            THEN (IF old_suitable
                  THEN UpdateValue(t, old_foreign_object, LEAVING,
                                   GetDelta(par, t, old_instance, LEAVING, NoInstance))
                  ELSE << >>)
                 \o
                 (IF is_suitable
                  THEN UpdateValue(t, foreign_object, ENTERING,
                                   GetDelta(par, t, instance, ENTERING, NoInstance))
                  ELSE << >>)
            ELSE IF is_suitable
            THEN UpdateValue(t, foreign_object, CHANGING,
                             GetDelta(par, t, instance, CHANGING, old_instance))
            ELSE << >>

\* --------------------------------------------------------------- the store
VARIABLES
    rows,      \* Member table: pk -> [pk, group, team, active, points]
    parents,   \* parents.group / parents.team: id -> aggregate fields
    nextpk,    \* next Member primary key (autoincrement, never reused)
    inst,      \* the in-memory Member instance of each row
    prev,      \* its _denormalized_previous_version
    last,      \* the last lifecycle event: what the trackers returned for it
               \* and the parent UPDATEs issued for it
    steps,     \* lifecycle events handled so far
    proc,      \* concurrent writers: position and the instance being created
    gobj,      \* concurrent writers: their in-memory Group objects
    declared,  \* the trackers registered on Member.group
    err        \* the exception the last operation raised to its caller

vars ==
    << rows, parents, nextpk, inst, prev, last, steps, proc, gobj, declared, err >>

\* Children of parent p over foreign key fk that match tracker t's query,
\* without the row `excl`.
Matching(table, t, p, excl) ==
    {k \in DOMAIN table : /\ table[k][t.fk] = p
                          /\ QueryMatch(t, table[k])
                          /\ k # excl}

Least(a, b) == IF a <= b THEN a ELSE b
Greatest(a, b) == IF a >= b THEN a ELSE b

\* The tracker a unit came from: the one of its foreign key that owns its field.
TrackerOf(u) ==
    LET trackers == IF u.fk = "group" THEN GroupTrackers ELSE TeamTrackers
    IN trackers[CHOOSE i \in 1..Len(trackers) : trackers[i].field = u.field]

\* The value the store computes for one unit of an UPDATE of parent p, from
\* the stored value of the field and the Member table.
EvalExpr(u, stored, table, p) ==
    CASE u.expr.op = "add" ->
            IF stored = NULL THEN NULL ELSE stored + u.expr.arg
      [] u.expr.op = "least" ->
            IF stored = NULL THEN u.expr.arg ELSE Least(stored, u.expr.arg)
      [] u.expr.op = "greatest" ->
            IF stored = NULL THEN u.expr.arg ELSE Greatest(stored, u.expr.arg)
      [] u.expr.op = "subquery" ->
            Aggregate(TrackerOf(u).aggregate, table,
                      Matching(table, TrackerOf(u), p, u.expr.excl))

\* The unit that sets field f in the updates dict (a later tracker's update
\* of the same field replaces an earlier one).
UnitFor(units, f) ==
    units[CHOOSE i \in 1..Len(units) :
            /\ units[i].field = f
            /\ \A j \in 1..Len(units) : units[j].field = f => j <= i]

\* A lost-update variant of update_object: the new value is computed in the
\* process from the in-memory object and then written back.
UpdateObjectReadModifyWrite(stored, obj, units, table, p) ==
    [f \in DOMAIN stored |->
        IF \E i \in 1..Len(units) : units[i].field = f
        THEN EvalExpr(UnitFor(units, f), obj[f], table, p)
        ELSE stored[f]]

\* An update_object whose save() carries no update_fields: the UPDATE also
\* writes back every other field of the in-memory object.
UpdateObjectAllFields(stored, obj, units, table, p) ==
    [f \in DOMAIN stored |->
        IF \E i \in 1..Len(units) : units[i].field = f
        THEN EvalExpr(UnitFor(units, f), stored[f], table, p)
        ELSE obj[f]]

\* DenormalizedForeignKey.update_object: one UPDATE statement on parent p that
\* sets exactly the fields named in the updates, each to its expression
\* evaluated by the store on the stored row. `obj` is the in-memory object.
UpdateObject(stored, obj, units, table, p) ==
    [f \in DOMAIN stored |->
        IF \E i \in 1..Len(units) : units[i].field = f
        THEN EvalExpr(UnitFor(units, f), stored[f], table, p)
        ELSE stored[f]]

RECURSIVE Concat(_)
Concat(ss) == IF ss = << >> THEN << >> ELSE Head(ss) \o Concat(Tail(ss))

\* The units of all trackers of one foreign key, in tracker order.
CollectChanges(par, trackers, instance, old_instance, created, deleted) ==
    Concat([i \in 1..Len(trackers) |->
              TrackChanges(par, trackers[i], instance, old_instance,
                           created, deleted)])

\* The distinct parents of `units`, in order of first appearance (the keys of
\* the `changed` dict).
AppendNew(seq, p) ==
    IF \E i \in 1..Len(seq) : seq[i] = p THEN seq ELSE Append(seq, p)

RECURSIVE Targets(_)
Targets(units) ==
    IF units = << >> THEN << >>
    ELSE AppendNew(Targets(SubSeq(units, 1, Len(units) - 1)),
                   units[Len(units)].parent)

UnitsOf(units, p) == SelectSeq(units, LAMBDA u : u.parent = p)

\* The loop over changed.items(): one update_object per distinct parent.
RECURSIVE ApplyChanged(_, _, _, _, _)
ApplyChanged(par, fk, units, targets, table) ==
    IF targets = << >> THEN par
    ELSE ApplyChanged(
             [par EXCEPT ![fk][Head(targets)] =
                 UpdateObject(@, @, UnitsOf(units, Head(targets)), table,
                              Head(targets))],
             fk, units, Tail(targets), table)

\* The result of _track_changes for one foreign key: the parents table after
\* the writes, the units collected and the UPDATE statements issued.
Applied(par, fk, units, targets, table) ==
    [par |-> ApplyChanged(par, fk, units, targets, table),
     units |-> units,
     writes |-> [i \in 1..Len(targets) |->
                   [fk |-> fk, parent |-> targets[i],
                    fields |-> {units[j].field : j \in
                                  {k \in 1..Len(units) :
                                     units[k].parent = targets[i]}}]]]

\* A second loop that writes once per unit instead of once per parent.
ApplyUnitsPerUnit(par, fk, units, table) ==
    Applied(par, fk, units, [i \in 1..Len(units) |-> units[i].parent], table)

\* The second loop of _track_changes, over the units collected by the first.
ApplyUnits(par, fk, units, table) ==
    Applied(par, fk, units, Targets(units), table)

\* DenormalizedForeignKey._track_changes for one foreign key: collect the
\* units of its trackers, then write each changed parent once.
TrackChangesOfKey(par, fk, trackers, instance, old_instance, created, deleted, table) ==
    ApplyUnits(par, fk,
               CollectChanges(par, trackers, instance, old_instance,
                              created, deleted),
               table)

\* Two receivers run one after the other: the second starts from the parents
\* table the first left.
Merge(g, t) ==
    [par |-> t.par, units |-> g.units \o t.units,
     writes |-> g.writes \o t.writes]

SignalTeam(g, instance, old_instance, created, deleted, table) ==
    Merge(g, TrackChangesOfKey(g.par, "team", TeamTrackers, instance,
                               old_instance, created, deleted, table))

\* The post_save / post_delete receivers of Member, in connection order:
\* the group key's, then the team key's.
Signal(par, instance, old_instance, created, deleted, table) ==
    SignalTeam(TrackChangesOfKey(par, "group", GroupTrackers, instance,
                                 old_instance, created, deleted, table),
               instance, old_instance, created, deleted, table)

\* store_initial_state: a copy of the instance's field values.
StoreInitialState(instance) == instance

\* A wrapped save that leaves the previous version as it was.
SnapshotNotReset(instance, previous) == previous

\* _wrap_save: after save() returns, the previous version becomes a copy of
\* the instance as saved.
SnapshotAfterSave(instance, previous) == StoreInitialState(instance)

\* The record of one handled event: the instance the receivers saw, its
\* previous version, the row as the store held it before the event, and what
\* the receivers collected and wrote.
Event(op, instance, old_instance, stored, res) ==
    [op |-> op, pk |-> instance.pk, new |-> instance, old |-> old_instance,
     stored |-> stored, units |-> res.units, writes |-> res.writes]

\* The store of the test fixture and no Member yet.
InitStore ==
    /\ rows = << >>
    /\ parents = [group |-> [g \in GroupIds |-> NewGroup],
                  team |-> [t \in TeamIds |-> NewTeam]]
    /\ nextpk = 1
    /\ inst = << >>
    /\ prev = << >>
    /\ last = [op |-> "none", pk |-> NULL, new |-> NoInstance,
               old |-> NoInstance, stored |-> NoInstance, units |-> << >>,
               writes |-> << >>]
    /\ steps = 0
    /\ proc = [p \in Procs |-> [pc |-> "idle", instance |-> NoInstance]]
    /\ gobj = [p \in Procs |-> [g \in GroupIds |-> NewGroup]]
    /\ err = "none"

Init == InitStore /\ declared = GroupTrackers

\* Member.objects.create(group=g, active=a, points=pts): INSERT, post_save
\* with created=True, then the wrapper stores the previous version.
Create(g, a, pts) ==
    /\ steps < MaxOps
    /\ nextpk <= MaxMembers
    /\ LET instance == [pk |-> nextpk, group |-> g, team |-> NULL,
                        active |-> a, points |-> pts]
           table == (nextpk :> instance) @@ rows
       IN \E res \in {Signal(parents, instance, NoInstance, TRUE, FALSE, table)} :
          /\ rows' = table
          /\ parents' = res.par
          /\ inst' = (nextpk :> instance) @@ inst
          /\ prev' = (nextpk :> SnapshotAfterSave(instance, instance)) @@ prev
          /\ last' = Event("create", instance, NoInstance, NoInstance, res)
    /\ nextpk' = nextpk + 1
    /\ steps' = steps + 1
    /\ err' = "none"
    /\ UNCHANGED << proc, gobj, declared >>

\* m.group = g; m.active = a; m.points = pts; m.save(): UPDATE of the row,
\* post_save with created=False, then the wrapper resets the previous version.
Update(m, g, a, pts) ==
    /\ steps < MaxOps
    /\ m \in DOMAIN inst
    /\ LET instance == [inst[m] EXCEPT !.group = g, !.active = a,
                                       !.points = pts]
           table == [rows EXCEPT ![m] = instance]
       IN \E res \in {Signal(parents, instance, prev[m], FALSE, FALSE, table)} :
          /\ rows' = table
          /\ parents' = res.par
          /\ inst' = [inst EXCEPT ![m] = instance]
          /\ prev' = [prev EXCEPT ![m] = SnapshotAfterSave(instance, prev[m])]
          /\ last' = Event("update", instance, prev[m], rows[m], res)
    /\ steps' = steps + 1
    /\ err' = "none"
    /\ UNCHANGED << nextpk, proc, gobj, declared >>

\* m.delete(): DELETE of the row, then post_delete with the in-memory instance.
Delete(m) ==
    /\ steps < MaxOps
    /\ m \in DOMAIN inst
    /\ LET instance == inst[m]
           table == [k \in DOMAIN rows \ {m} |-> rows[k]]
       IN \E res \in {Signal(parents, instance, prev[m], FALSE, TRUE, table)} :
          /\ rows' = table
          /\ parents' = res.par
          /\ inst' = [k \in DOMAIN inst \ {m} |-> inst[k]]
          /\ prev' = [k \in DOMAIN prev \ {m} |-> prev[k]]
          /\ last' = Event("delete", instance, prev[m], rows[m], res)
    /\ steps' = steps + 1
    /\ err' = "none"
    /\ UNCHANGED << nextpk, proc, gobj, declared >>

ParentChoices == GroupIds \cup {NULL}

Next ==
    \/ \E g \in ParentChoices, a \in BOOLEAN, pts \in Points : Create(g, a, pts)
    \/ \E m \in MemberIds, g \in ParentChoices, a \in BOOLEAN, pts \in Points :
          Update(m, g, a, pts)
    \/ \E m \in MemberIds : Delete(m)

Spec == Init /\ [][Next]_vars

\* ------------------------------------------------------ concurrent writers
\* Each writer handles one "child created" event:
\*     group = Group.objects.get(pk=g); Member.objects.create(group=group, ...)
\* as the store statements it issues: SELECT of the group, INSERT of the
\* member, UPDATE of the group (update_object), SELECT of the group
\* (refresh_from_db). Statements of different writers interleave freely.

\* Group.objects.get(pk=g): the writer's own in-memory Group object.
Load(p, g) ==
    /\ proc[p].pc = "idle"
    /\ gobj' = [gobj EXCEPT ![p][g] = parents.group[g]]
    /\ proc' = [proc EXCEPT ![p] = [pc |-> "loaded",
                                    instance |-> [NoInstance EXCEPT !.group = g]]]
    /\ UNCHANGED << rows, parents, nextpk, inst, prev, last, steps, declared, err >>

\* Model.save(): INSERT of the new Member row.
Insert(p, a, pts) ==
    /\ proc[p].pc = "loaded"
    /\ nextpk <= MaxMembers
    /\ LET instance == [proc[p].instance EXCEPT !.pk = nextpk, !.active = a,
                                                !.points = pts]
       IN /\ rows' = (nextpk :> instance) @@ rows
          /\ proc' = [proc EXCEPT ![p] = [pc |-> "inserted",
                                          instance |-> instance]]
    /\ nextpk' = nextpk + 1
    /\ UNCHANGED << parents, inst, prev, last, steps, gobj, declared, err >>

\* post_save: the trackers' units are computed in the process, then
\* update_object issues one UPDATE of the group.
WriteParent(p) ==
    /\ proc[p].pc = "inserted"
    /\ LET instance == proc[p].instance
           g == instance.group
           units == CollectChanges(parents, GroupTrackers, instance,
                                   NoInstance, TRUE, FALSE)
       IN /\ units # << >>
          /\ parents' = [parents EXCEPT !.group[g] =
                            UpdateObject(@, gobj[p][g], units, rows, g)]
    /\ proc' = [proc EXCEPT ![p].pc = "written"]
    /\ UNCHANGED << rows, nextpk, inst, prev, last, steps, gobj, declared, err >>

\* update_object: obj.refresh_from_db(); then the save wrapper stores the
\* previous version.
Refresh(p) ==
    /\ proc[p].pc = "written"
    /\ LET instance == proc[p].instance
       IN /\ gobj' = [gobj EXCEPT ![p][instance.group] =
                         parents.group[instance.group]]
          /\ inst' = (instance.pk :> instance) @@ inst
          /\ prev' = (instance.pk :> SnapshotAfterSave(instance, instance))
                        @@ prev
    /\ proc' = [proc EXCEPT ![p].pc = "done"]
    /\ UNCHANGED << rows, parents, nextpk, last, steps, declared, err >>

\* post_save of a child no tracker accepts: nothing to write; the save
\* wrapper stores the previous version.
SkipParent(p) ==
    /\ proc[p].pc = "inserted"
    /\ LET instance == proc[p].instance
       IN /\ CollectChanges(parents, GroupTrackers, instance, NoInstance,
                            TRUE, FALSE) = << >>
          /\ inst' = (instance.pk :> instance) @@ inst
          /\ prev' = (instance.pk :> SnapshotAfterSave(instance, instance))
                        @@ prev
    /\ proc' = [proc EXCEPT ![p].pc = "done"]
    /\ UNCHANGED << rows, parents, nextpk, last, steps, gobj, declared, err >>

NextConc ==
    \/ \E p \in Procs, g \in GroupIds : Load(p, g)
    \/ \E p \in Procs, a \in BOOLEAN, pts \in Points : Insert(p, a, pts)
    \/ \E p \in Procs : WriteParent(p)
    \/ \E p \in Procs : Refresh(p)
    \/ \E p \in Procs : SkipParent(p)

SpecConc == Init /\ [][NextConc]_vars

\* ------------------------------------------- in-memory edits, partial saves
\* One in-memory instance per row, whose attributes are assigned and then
\* saved in full or with update_fields, or which is discarded for a fresh
\* load of the row.

MemberFields == {"group", "team", "active", "points"}

\* The row an UPDATE of the columns `fields` leaves: the named columns take
\* the instance's values, the others keep the stored ones.
SavedRow(stored, instance, fields) ==
    [f \in DOMAIN stored |->
        IF f \in MemberFields /\ f \notin fields THEN stored[f]
        ELSE instance[f]]

\* m = Member.objects.get(pk=m): the instance is built from the row and
\* post_init stores its previous version.
Get(m) ==
    /\ m \in DOMAIN rows
    /\ inst' = [k \in DOMAIN inst \cup {m} |->
                  IF k = m THEN rows[m] ELSE inst[k]]
    /\ prev' = [k \in DOMAIN prev \cup {m} |->
                  IF k = m THEN StoreInitialState(rows[m]) ELSE prev[k]]
    /\ err' = "none"
    /\ UNCHANGED << rows, parents, nextpk, last, steps, proc, gobj, declared >>

\* m.group = g; m.active = a; m.points = pts; m.save(update_fields=fields),
\* or m.save() when fields is every field: UPDATE of the named columns,
\* post_save with the in-memory instance, then the wrapper stores the
\* in-memory instance as the previous version.
Save(m, g, a, pts, fields) ==
    /\ steps < MaxOps
    /\ m \in DOMAIN inst
    /\ m \in DOMAIN rows
    /\ LET instance == [inst[m] EXCEPT !.group = g, !.active = a,
                                       !.points = pts]
           table == [rows EXCEPT ![m] = SavedRow(@, instance, fields)]
       IN \E res \in {Signal(parents, instance, prev[m], FALSE, FALSE, table)} :
          /\ rows' = table
          /\ parents' = res.par
          /\ inst' = [inst EXCEPT ![m] = instance]
          /\ prev' = [prev EXCEPT ![m] = SnapshotAfterSave(instance, prev[m])]
          /\ last' = Event("update", instance, prev[m], rows[m], res)
    /\ steps' = steps + 1
    /\ err' = "none"
    /\ UNCHANGED << nextpk, proc, gobj, declared >>

\* The update_fields arguments tried: every field (a full save) and each
\* non-empty choice of the fields the instance assigns.
UpdateFields == {MemberFields} \cup (SUBSET {"group", "active", "points"} \ {{}})

NextSnap ==
    \/ \E g \in ParentChoices, a \in BOOLEAN, pts \in Points : Create(g, a, pts)
    \/ \E m \in MemberIds : Get(m)
    \/ \E m \in MemberIds, g \in ParentChoices, a \in BOOLEAN, pts \in Points,
          fields \in UpdateFields : Save(m, g, a, pts, fields)

SpecSnap == Init /\ [][NextSnap]_vars

\* ------------------------------------------------------ tracker declaration
\* A tracker of an aggregate the tracker class has no _get_<name>_delta for.
AvgTracker ==
    [fk |-> "group", field |-> "points_avg", aggregate |-> "avg",
     callback |-> "active", query |-> "active"]

\* The trackers a Member class may list on its group key, in class-body order.
Declarable == Append(GroupTrackers, AvgTracker)

InitKinds == InitStore /\ declared = << >>

\* DenormalizedTracker(field, aggregate=...) listed in DenormalizedForeignKey(
\* trackers=[...]): the constructor and contribute_to_class store what they
\* are given.
Declare(i) ==
    /\ steps = 0
    /\ \A j \in i..Len(Declarable) :
          \A k \in 1..Len(declared) : declared[k] # Declarable[j]
    /\ declared' = Append(declared, Declarable[i])
    /\ UNCHANGED << rows, parents, nextpk, inst, prev, last, steps, proc, gobj,
                    err >>

Raised(units) == \E i \in 1..Len(units) : units[i].expr.op = "raise"

\* The receivers of one signal with the registered trackers on the group
\* key. An exception in a tracker leaves the first loop of _track_changes
\* before any parent is written and before the team key's receiver runs.
Receivers(par, trackers, instance, old_instance, created, deleted, table) ==
    LET units == CollectChanges(par, trackers, instance, old_instance,
                                created, deleted)
    IN IF Raised(units)
       THEN [par |-> par, units |-> units, writes |-> << >>,
             err |-> "NotImplementedError"]
       ELSE LET res == SignalTeam(ApplyUnits(par, "group", units, table),
                                  instance, old_instance, created, deleted,
                                  table)
            IN [par |-> res.par, units |-> res.units, writes |-> res.writes,
                err |-> "none"]

\* Member.objects.create(...) under the registered trackers. When a receiver
\* raises, the row is already inserted and the caller gets the exception
\* instead of the instance.
CreateDeclared(g, a, pts) ==
    /\ steps < MaxOps
    /\ nextpk <= MaxMembers
    /\ LET instance == [pk |-> nextpk, group |-> g, team |-> NULL,
                        active |-> a, points |-> pts]
           table == (nextpk :> instance) @@ rows
       IN \E res \in {Receivers(parents, declared, instance, NoInstance,
                                TRUE, FALSE, table)} :
          /\ rows' = table
          /\ parents' = res.par
          /\ inst' = IF res.err = "none"
                     THEN (nextpk :> instance) @@ inst ELSE inst
          /\ prev' = IF res.err = "none"
                     THEN (nextpk :> SnapshotAfterSave(instance, instance))
                             @@ prev
                     ELSE prev
          /\ last' = Event("create", instance, NoInstance, NoInstance, res)
          /\ err' = res.err
    /\ nextpk' = nextpk + 1
    /\ steps' = steps + 1
    /\ UNCHANGED << proc, gobj, declared >>

\* m.delete() under the registered trackers; the instance is dropped
\* afterwards.
DeleteDeclared(m) ==
    /\ steps < MaxOps
    /\ m \in DOMAIN inst
    /\ LET instance == inst[m]
           table == [k \in DOMAIN rows \ {m} |-> rows[k]]
       IN \E res \in {Receivers(parents, declared, instance, prev[m],
                                FALSE, TRUE, table)} :
          /\ rows' = table
          /\ parents' = res.par
          /\ last' = Event("delete", instance, prev[m], rows[m], res)
          /\ err' = res.err
    /\ inst' = [k \in DOMAIN inst \ {m} |-> inst[k]]
    /\ prev' = [k \in DOMAIN prev \ {m} |-> prev[k]]
    /\ steps' = steps + 1
    /\ UNCHANGED << nextpk, proc, gobj, declared >>

NextKinds ==
    \/ \E i \in 1..Len(Declarable) : Declare(i)
    \/ \E g \in ParentChoices, a \in BOOLEAN, pts \in Points :
          CreateDeclared(g, a, pts)
    \/ \E m \in MemberIds : DeleteDeclared(m)

SpecKinds == InitKinds /\ [][NextKinds]_vars

\* ------------------------------------------------------- parent deletion
\* Instances here are loaded from the store (Member.objects.get) and used for
\* one delete, so the parent of an instance is always looked up in the store
\* when its event is handled. A loaded instance outlives a cascade that
\* removes its row.

\* Member.objects.create(...) whose result is not kept.
CreateRow(g, a, pts) ==
    /\ steps < MaxOps
    /\ nextpk <= MaxMembers
    /\ LET instance == [pk |-> nextpk, group |-> g, team |-> NULL,
                        active |-> a, points |-> pts]
           table == (nextpk :> instance) @@ rows
       IN \E res \in {Signal(parents, instance, NoInstance, TRUE, FALSE, table)} :
          /\ rows' = table
          /\ parents' = res.par
          /\ last' = Event("create", instance, NoInstance, NoInstance, res)
    /\ nextpk' = nextpk + 1
    /\ steps' = steps + 1
    /\ err' = "none"
    /\ UNCHANGED << inst, prev, proc, gobj, declared >>

\* An UPDATE of a parent row that is not there: save(update_fields=...)
\* affects no row and raises DatabaseError.
WritesMissing(par, writes) ==
    \E i \in 1..Len(writes) : writes[i].parent \notin DOMAIN par[writes[i].fk]

\* m.delete() on a loaded instance, whose row may be gone already: DELETE,
\* then post_delete with the instance.
DeleteLoaded(m) ==
    /\ steps < MaxOps
    /\ m \in DOMAIN inst
    /\ LET instance == inst[m]
           table == [k \in DOMAIN rows \ {m} |-> rows[k]]
       IN \E res \in {Signal(parents, instance, prev[m], FALSE, TRUE, table)} :
          /\ rows' = table
          /\ parents' = res.par
          /\ last' = Event("delete", instance, prev[m],
                           IF m \in DOMAIN rows THEN rows[m] ELSE NoInstance,
                           res)
          /\ err' = IF WritesMissing(parents, res.writes)
                    THEN "DatabaseError" ELSE "none"
    /\ inst' = [k \in DOMAIN inst \ {m} |-> inst[k]]
    /\ prev' = [k \in DOMAIN prev \ {m} |-> prev[k]]
    /\ steps' = steps + 1
    /\ UNCHANGED << nextpk, proc, gobj, declared >>

\* The children a cascade collects for group g, in the order their
\* post_delete signals are sent.
RECURSIVE Collected(_)
Collected(S) ==
    IF S = {} THEN << >>
    ELSE LET k == CHOOSE x \in S : \A y \in S : x >= y
         IN << k >> \o Collected(S \ {k})

\* post_delete of each collected child, one after the other, each with an
\* instance the collector loaded from the store.
RECURSIVE CascadeSignals(_, _, _, _)
CascadeSignals(res, pks, old_table, table) ==
    IF pks = << >> THEN res
    ELSE CascadeSignals(
             Merge(res, Signal(res.par, old_table[Head(pks)],
                               StoreInitialState(old_table[Head(pks)]),
                               FALSE, TRUE, table)),
             Tail(pks), old_table, table)

\* group.delete() with on_delete=CASCADE: the collector loads the children,
\* deletes their rows in one statement, sends their post_delete signals while
\* the group row is still there, then deletes the group row.
DeleteGroup(g) ==
    /\ steps < MaxOps
    /\ g \in DOMAIN parents.group
    /\ LET children == {k \in DOMAIN rows : rows[k].group = g}
           table == [k \in DOMAIN rows \ children |-> rows[k]]
       IN \E res \in {CascadeSignals([par |-> parents, units |-> << >>,
                                      writes |-> << >>],
                                     Collected(children), rows, table)} :
          /\ rows' = table
          /\ parents' = [res.par EXCEPT !.group =
                            [h \in DOMAIN res.par.group \ {g} |->
                               res.par.group[h]]]
          /\ last' = [op |-> "delete_parent", pk |-> NULL,
                      new |-> [NoInstance EXCEPT !.group = g],
                      old |-> NoInstance, stored |-> parents.group[g],
                      units |-> res.units, writes |-> res.writes]
          /\ err' = IF WritesMissing(parents, res.writes)
                    THEN "DatabaseError" ELSE "none"
    /\ steps' = steps + 1
    /\ UNCHANGED << nextpk, inst, prev, proc, gobj, declared >>

NextCascade ==
    \/ \E g \in ParentChoices, a \in BOOLEAN, pts \in Points :
          CreateRow(g, a, pts)
    \/ \E m \in MemberIds : Get(m)
    \/ \E m \in MemberIds : DeleteLoaded(m)
    \/ \E g \in GroupIds : DeleteGroup(g)

SpecCascade == Init /\ [][NextCascade]_vars

\* ---------------------------------------------------- expression values
Increments == {-1, 1}

\* m.group = g; m.active = a; m.points = F('points') + c; m.save(): the
\* UPDATE computes the new points in the store; the receivers get the
\* instance with the expression still in place of the number. Every event
\* of the fixture reaches a tracker that reads the value (the team key's sum
\* tracker accepts every child), so the attribute is a number again when the
\* wrapper stores the previous version.
SaveIncremental(m, g, a, c) ==
    /\ steps < MaxOps
    /\ m \in DOMAIN inst
    /\ rows[m].points + c \in Points
    /\ LET saved == [inst[m] EXCEPT !.group = g, !.active = a,
                                    !.points = rows[m].points + c]
           table == [rows EXCEPT ![m] = saved]
           instance == WithExpression([inst[m] EXCEPT !.group = g,
                                                      !.active = a],
                                      c, table[m].points)
       IN \E res \in {Signal(parents, instance, prev[m], FALSE, FALSE, table)} :
          /\ rows' = table
          /\ parents' = res.par
          /\ inst' = [inst EXCEPT ![m] = saved]
          /\ prev' = [prev EXCEPT ![m] = SnapshotAfterSave(saved, prev[m])]
          /\ last' = Event("increment", saved, prev[m], rows[m], res)
    /\ steps' = steps + 1
    /\ err' = "none"
    /\ UNCHANGED << nextpk, proc, gobj, declared >>

NextIncr ==
    \/ \E g \in ParentChoices, a \in BOOLEAN, pts \in Points : Create(g, a, pts)
    \/ \E m \in MemberIds, g \in ParentChoices, a \in BOOLEAN, c \in Increments :
          SaveIncremental(m, g, a, c)
    \/ \E m \in MemberIds : Delete(m)

SpecIncr == Init /\ [][NextIncr]_vars

\* ------------------------------------------------------ two foreign keys
TeamChoices == TeamIds \cup {NULL}

\* Member.objects.create(group=g, team=t, active=a, points=pts)
CreateMember(g, t, a, pts) ==
    /\ steps < MaxOps
    /\ nextpk <= MaxMembers
    /\ LET instance == [pk |-> nextpk, group |-> g, team |-> t,
                        active |-> a, points |-> pts]
           table == (nextpk :> instance) @@ rows
       IN \E res \in {Signal(parents, instance, NoInstance, TRUE, FALSE, table)} :
          /\ rows' = table
          /\ parents' = res.par
          /\ inst' = (nextpk :> instance) @@ inst
          /\ prev' = (nextpk :> SnapshotAfterSave(instance, instance)) @@ prev
          /\ last' = Event("create", instance, NoInstance, NoInstance, res)
    /\ nextpk' = nextpk + 1
    /\ steps' = steps + 1
    /\ err' = "none"
    /\ UNCHANGED << proc, gobj, declared >>

\* m.group = g; m.team = t; m.active = a; m.points = pts; m.save()
UpdateMember(m, g, t, a, pts) ==
    /\ steps < MaxOps
    /\ m \in DOMAIN inst
    /\ LET instance == [inst[m] EXCEPT !.group = g, !.team = t, !.active = a,
                                       !.points = pts]
           table == [rows EXCEPT ![m] = instance]
       IN \E res \in {Signal(parents, instance, prev[m], FALSE, FALSE, table)} :
          /\ rows' = table
          /\ parents' = res.par
          /\ inst' = [inst EXCEPT ![m] = instance]
          /\ prev' = [prev EXCEPT ![m] = SnapshotAfterSave(instance, prev[m])]
          /\ last' = Event("update", instance, prev[m], rows[m], res)
    /\ steps' = steps + 1
    /\ err' = "none"
    /\ UNCHANGED << nextpk, proc, gobj, declared >>

NextKeys ==
    \/ \E g \in ParentChoices, t \in TeamChoices, a \in BOOLEAN, pts \in Points :
          CreateMember(g, t, a, pts)
    \/ \E m \in MemberIds, g \in ParentChoices, t \in TeamChoices,
          a \in BOOLEAN, pts \in Points : UpdateMember(m, g, t, a, pts)
    \/ \E m \in MemberIds : Delete(m)

SpecKeys == Init /\ [][NextKeys]_vars

\* ---------------------------------------------------------- store failures
\* The store may refuse any parent UPDATE of an event. update_object and
\* _track_changes catch nothing, so the exception leaves the receiver, the
\* signal and the save or delete that sent it; what was written before stays
\* written.

Outcome(r, e) ==
    [par |-> r.par, units |-> r.units, writes |-> r.writes, err |-> e]

\* The receivers of one signal when the store refuses the k-th parent UPDATE
\* of the event (k = 0: none): the UPDATEs before it are applied, those after
\* it are never issued, and a failure in the group key's receiver keeps the
\* team key's receiver from running.
FailingReceivers(par, instance, old_instance, created, deleted, table, k) ==
    LET gunits == CollectChanges(par, GroupTrackers, instance, old_instance,
                                 created, deleted)
        gtargets == Targets(gunits)
    IN IF k \in 1..Len(gtargets)
       THEN Outcome(Applied(par, "group", gunits,
                            SubSeq(gtargets, 1, k - 1), table),
                    "DatabaseError")
       ELSE LET g == Applied(par, "group", gunits, gtargets, table)
                tunits == CollectChanges(g.par, TeamTrackers, instance,
                                         old_instance, created, deleted)
                ttargets == Targets(tunits)
                j == k - Len(gtargets)
            IN IF j \in 1..Len(ttargets)
               THEN Outcome(Merge(g, Applied(g.par, "team", tunits,
                                             SubSeq(ttargets, 1, j - 1),
                                             table)),
                            "DatabaseError")
               ELSE Outcome(Merge(g, Applied(g.par, "team", tunits, ttargets,
                                             table)),
                            "none")

\* A signal whose sender undoes the event's parent writes when a receiver
\* raises.
SignalFailingRolledBack(par, instance, old_instance, created, deleted, table, k) ==
    LET r == FailingReceivers(par, instance, old_instance, created, deleted,
                              table, k)
    IN IF r.err = "none" THEN r
       ELSE [r EXCEPT !.par = par, !.writes = << >>]

\* Signal.send: a receiver's exception is not caught; it reaches the sender
\* with the store as the receivers left it.
SignalFailing(par, instance, old_instance, created, deleted, table, k) ==
    FailingReceivers(par, instance, old_instance, created, deleted, table, k)

\* The event record with the position of the refused UPDATE.
FailedEvent(e, k) == [failed |-> k] @@ e

\* m.group = g; m.active = a; m.save() with the k-th parent UPDATE refused:
\* the row is written, the exception leaves save() before the wrapper stores
\* the previous version. A k beyond the UPDATEs the event issues is no event.
UpdateFailing(m, g, a, k) ==
    /\ steps < MaxOps
    /\ m \in DOMAIN inst
    /\ m \in DOMAIN rows
    /\ LET instance == [inst[m] EXCEPT !.group = g, !.active = a]
           table == [rows EXCEPT ![m] = instance]
       IN \E res \in {SignalFailing(parents, instance, prev[m], FALSE, FALSE,
                                    table, k)} :
                /\ k = 0 \/ res.err # "none"
                /\ rows' = table
                /\ parents' = res.par
                /\ inst' = [inst EXCEPT ![m] = instance]
                /\ prev' = IF res.err = "none"
                           THEN [prev EXCEPT ![m] =
                                   SnapshotAfterSave(instance, prev[m])]
                           ELSE prev
                /\ last' = FailedEvent(Event("update", instance, prev[m],
                                             rows[m], res), k)
                /\ err' = res.err
    /\ steps' = steps + 1
    /\ UNCHANGED << nextpk, proc, gobj, declared >>

\* m.delete() with the k-th parent UPDATE refused; the instance is dropped
\* afterwards.
DeleteFailing(m, k) ==
    /\ steps < MaxOps
    /\ m \in DOMAIN inst
    /\ m \in DOMAIN rows
    /\ LET instance == inst[m]
           table == [i \in DOMAIN rows \ {m} |-> rows[i]]
       IN \E res \in {SignalFailing(parents, instance, prev[m], FALSE, TRUE,
                                    table, k)} :
                /\ k = 0 \/ res.err # "none"
                /\ rows' = table
                /\ parents' = res.par
                /\ last' = FailedEvent(Event("delete", instance, prev[m],
                                             rows[m], res), k)
                /\ err' = res.err
    /\ inst' = [i \in DOMAIN inst \ {m} |-> inst[i]]
    /\ prev' = [i \in DOMAIN prev \ {m} |-> prev[i]]
    /\ steps' = steps + 1
    /\ UNCHANGED << nextpk, proc, gobj, declared >>

\* One event writes at most the old and the new parent of each key.
FailChoices == 0..2

NextFail ==
    \/ \E g \in ParentChoices, a \in BOOLEAN, pts \in Points : Create(g, a, pts)
    \/ \E m \in MemberIds, g \in ParentChoices, a \in BOOLEAN,
          k \in FailChoices : UpdateFailing(m, g, a, k)
    \/ \E m \in MemberIds, k \in FailChoices : DeleteFailing(m, k)

SpecFail == Init /\ [][NextFail]_vars

\* ------------------------------------------------------- manual resync
\* QuerySet.aggregate(): one result row even when no row matches, so COUNT of
\* nothing is 0 while SUM, MIN and MAX of nothing are NULL.
QuerySetAggregate(kind, table, S) ==
    IF kind = "count" THEN Cardinality(S) ELSE Aggregate(kind, table, S)

TrackersOf(fk) == IF fk = "group" THEN GroupTrackers ELSE TeamTrackers

\* A resync that aggregates over every child of the parent, whatever the
\* tracker's query.
DenormalizedValueUnfiltered(t, table, p) ==
    QuerySetAggregate(t.aggregate, table,
                      {k \in DOMAIN table : table[k][t.fk] = p})

\* related_manager.filter(tracker.query).aggregate(a=tracker.aggregate)['a']
DenormalizedValue(t, table, p) ==
    QuerySetAggregate(t.aggregate, table, Matching(table, t, p, NULL))

\* The loop of denormalize(): every tracker of the key sets its field on the
\* parent object (a later tracker of the same field replaces an earlier one).
DenormalizedObject(stored, trackers, table, p) ==
    [f \in DOMAIN stored |->
        IF \E i \in 1..Len(trackers) : trackers[i].field = f
        THEN DenormalizedValue(
                 trackers[CHOOSE i \in 1..Len(trackers) :
                            /\ trackers[i].field = f
                            /\ \A j \in 1..Len(trackers) :
                                  trackers[j].field = f => j <= i],
                 table, p)
        ELSE stored[f]]

\* The record of an operation on a parent row: the row before it and the
\* UPDATE issued.
ParentEvent(op, fk, p, fields) ==
    [op |-> op, pk |-> NULL, new |-> NoInstance, old |-> NoInstance,
     stored |-> parents[fk][p], units |-> << >>,
     writes |-> << [fk |-> fk, parent |-> p, fields |-> fields] >>]

\* parent.member_set.denormalize(): the aggregates are read with the
\* trackers' queries and saved with update_fields = the trackers' fields.
Denormalize(fk, p) ==
    /\ steps < MaxOps
    /\ p \in DOMAIN parents[fk]
    /\ parents' = [parents EXCEPT ![fk][p] =
                      DenormalizedObject(@, TrackersOf(fk), rows, p)]
    /\ last' = ParentEvent("denormalize", fk, p,
                           {TrackersOf(fk)[i].field :
                              i \in 1..Len(TrackersOf(fk))})
    /\ steps' = steps + 1
    /\ err' = "none"
    /\ UNCHANGED << rows, nextpk, inst, prev, proc, gobj, declared >>

\* Group.objects.filter(pk=g).update(members_count=v, points_sum=v, ...): a
\* write to the aggregate fields that no receiver sees.
QuerySetUpdate(g, v) ==
    /\ steps < MaxOps
    /\ parents.group[g] # [f \in DOMAIN NewGroup |-> v]
    /\ parents' = [parents EXCEPT !.group[g] = [f \in DOMAIN NewGroup |-> v]]
    /\ last' = ParentEvent("update_parent", "group", g, DOMAIN NewGroup)
    /\ steps' = steps + 1
    /\ err' = "none"
    /\ UNCHANGED << rows, nextpk, inst, prev, proc, gobj, declared >>

ParentKeys == {<< "group", g >> : g \in GroupIds} \cup
              {<< "team", t >> : t \in TeamIds}

NextSync ==
    \/ \E g \in ParentChoices, a \in BOOLEAN, pts \in Points : Create(g, a, pts)
    \/ \E m \in MemberIds : Delete(m)
    \/ \E k \in ParentKeys : Denormalize(k[1], k[2])
    \/ \E g \in GroupIds, v \in Points \cup {NULL} : QuerySetUpdate(g, v)

SpecSync == Init /\ [][NextSync]_vars

\* ------------------------------------------------------- the steps of a save
\* The foreign keys of Member that carry trackers, in class-body order.
TrackedKeys == << "group", "team" >>

\* A _wrap_save that does not look for an earlier wrapper: every tracked key
\* adds a layer around Member.save.
WrapSaveEveryKey(wrappers, fk) == wrappers + 1

\* _wrap_save, the class_prepared receiver of one tracked key: Member.save is
\* wrapped unless it already carries a wrapper. `wrappers` counts the layers.
WrapSave(wrappers, fk) == IF wrappers > 0 THEN wrappers ELSE 1

\* class_prepared sent to the receivers of all tracked keys.
RECURSIVE ClassPrepared(_)
ClassPrepared(keys) ==
    IF keys = << >> THEN 0
    ELSE WrapSave(ClassPrepared(SubSeq(keys, 1, Len(keys) - 1)), keys[Len(keys)])

\* No save is between its UPDATE and the return of its outermost wrapper.
Idle ==
    IF "pending" \in DOMAIN last
    THEN last.pending = << >> /\ last.wrappers = 0
    ELSE TRUE

\* Member.objects.create(group=g, team=t), `active` and `points` taking their
\* defaults, by a process that is not inside a save.
CreateIdle(g, t) == Idle /\ CreateMember(g, t, TRUE, 0)

\* m.group = g; m.team = t; m.active = a; m.save() up to the UPDATE of the
\* row: post_save is about to be sent to the receivers of
\* `pending`, inside `wrappers` layers of the save wrapper.
SaveBegin(m, g, t, a) ==
    /\ Idle
    /\ steps < MaxOps
    /\ m \in DOMAIN inst
    /\ LET instance == [inst[m] EXCEPT !.group = g, !.team = t, !.active = a]
       IN /\ rows' = [rows EXCEPT ![m] = instance]
          /\ inst' = [inst EXCEPT ![m] = instance]
          /\ last' = [pending |-> TrackedKeys,
                      wrappers |-> ClassPrepared(TrackedKeys),
                      seen |-> << >>, resets |-> 0]
                     @@ Event("update", instance, prev[m], rows[m],
                              [units |-> << >>, writes |-> << >>])
    /\ steps' = steps + 1
    /\ err' = "none"
    /\ UNCHANGED << parents, nextpk, prev, proc, gobj, declared >>

\* post_save reaches the receiver of the next tracked key: its trackers read
\* the instance's previous version, then each changed parent is written.
Receive ==
    /\ ~Idle
    /\ last.pending # << >>
    /\ LET fk == Head(last.pending)
           m == last.pk
       IN \E res \in {TrackChangesOfKey(parents, fk, TrackersOf(fk), inst[m],
                                        prev[m], FALSE, FALSE, rows)} :
          /\ parents' = res.par
          /\ last' = [last EXCEPT !.pending = Tail(@),
                                  !.units = @ \o res.units,
                                  !.writes = @ \o res.writes,
                                  !.seen = Append(@, prev[m])]
    /\ UNCHANGED << rows, nextpk, inst, prev, steps, proc, gobj, declared, err >>

\* save() has returned into a wrapper layer: store_initial_state(instance).
WrapperReturn ==
    /\ ~Idle
    /\ last.pending = << >>
    /\ last.wrappers > 0
    /\ prev' = [prev EXCEPT ![last.pk] = SnapshotAfterSave(inst[last.pk], @)]
    /\ last' = [last EXCEPT !.wrappers = @ - 1, !.resets = @ + 1]
    /\ UNCHANGED << rows, parents, nextpk, inst, steps, proc, gobj, declared, err >>

NextSteps ==
    \/ \E g \in ParentChoices, t \in TeamChoices : CreateIdle(g, t)
    \/ \E m \in MemberIds, g \in ParentChoices, t \in TeamChoices,
          a \in BOOLEAN : SaveBegin(m, g, t, a)
    \/ Receive
    \/ WrapperReturn

SpecSteps == Init /\ [][NextSteps]_vars

\* ------------------------------------------ writers of different trackers
\* Concurrent "child created" events of foreign keys to Group that declare
\* different trackers: the fixture's count tracker alone, its min tracker
\* alone, or all four.
KeyChoices == {<< 1 >>, << 3 >>, [i \in 1..Len(GroupTrackers) |-> i]}

\* The two writers whose UPDATEs race.
FrameProcs == {1, 2}

TrackersAt(ix) == [i \in 1..Len(ix) |-> GroupTrackers[ix[i]]]

\* group = Group.objects.get(pk=g); Child.objects.create(group=group,
\* points=pts) up to the INSERT, for a key that declares the trackers at ix.
InsertChild(p, g, ix, pts) ==
    /\ proc[p].pc = "idle"
    /\ nextpk <= MaxMembers
    /\ LET instance == [pk |-> nextpk, group |-> g, team |-> NULL,
                        active |-> TRUE, points |-> pts]
       IN /\ rows' = (nextpk :> instance) @@ rows
          /\ proc' = [proc EXCEPT ![p] = [pc |-> "inserted",
                                          instance |-> instance,
                                          trackers |-> TrackersAt(ix),
                                          units |-> << >>]]
    /\ gobj' = [gobj EXCEPT ![p][g] = parents.group[g]]
    /\ nextpk' = nextpk + 1
    /\ UNCHANGED << parents, inst, prev, last, steps, declared, err >>

\* post_save: the key's trackers return their units and update_object issues
\* the UPDATE of the group.
WriteFields(p) ==
    /\ proc[p].pc = "inserted"
    /\ "trackers" \in DOMAIN proc[p]
    /\ LET g == proc[p].instance.group
       IN \E units \in {CollectChanges(parents, proc[p].trackers,
                                       proc[p].instance, NoInstance,
                                       TRUE, FALSE)} :
          /\ units # << >>
          /\ parents' = [parents EXCEPT !.group[g] =
                            UpdateObject(@, gobj[p][g], units, rows, g)]
          /\ proc' = [proc EXCEPT ![p].pc = "written", ![p].units = units]
    /\ UNCHANGED << rows, nextpk, inst, prev, last, steps, gobj, declared, err >>

NextFrame ==
    \/ \E p \in FrameProcs, g \in GroupIds, ix \in KeyChoices, pts \in Points :
          InsertChild(p, g, ix, pts)
    \/ \E p \in FrameProcs : WriteFields(p)
    \/ \E p \in FrameProcs : Refresh(p)

SpecFrame == Init /\ [][NextFrame]_vars

\* ------------------------------------------------- resync among writers
\* group = Group.objects.get(pk=g); group.member_set.denormalize() as the
\* statements it issues, next to writers that create children: one SELECT
\* of an aggregate per tracker, each result set on the in-memory Group, then
\* one UPDATE that saves the trackers' fields from that object.

\* related_manager.filter(tracker.query).aggregate(...) for the next tracker
\* and setattr(foreign_object, tracker.field, value).
ReadAggregate(p) ==
    /\ proc[p].pc \in {"loaded", "reading"}
    /\ LET g == proc[p].instance.group
           k == IF proc[p].pc = "loaded" THEN 1 ELSE proc[p].next
           t == GroupTrackers[k]
       IN /\ gobj' = [gobj EXCEPT ![p][g][t.field] =
                         DenormalizedValue(t, rows, g)]
          /\ proc' = [proc EXCEPT ![p] =
                         [pc |-> IF k = Len(GroupTrackers) THEN "read"
                                 ELSE "reading",
                          instance |-> proc[p].instance,
                          next |-> k + 1]]
    /\ UNCHANGED << rows, parents, nextpk, inst, prev, last, steps, declared, err >>

\* foreign_object.save(update_fields=changed): the values read are written.
SaveAggregates(p) ==
    /\ proc[p].pc = "read"
    /\ LET g == proc[p].instance.group
       IN parents' = [parents EXCEPT !.group[g] =
                         [f \in DOMAIN @ |->
                            IF f \in {GroupTrackers[i].field :
                                        i \in 1..Len(GroupTrackers)}
                            THEN gobj[p][g][f] ELSE @[f]]]
    /\ proc' = [proc EXCEPT ![p].pc = "resynced"]
    /\ UNCHANGED << rows, nextpk, inst, prev, last, steps, gobj, declared, err >>

NextResync ==
    \/ \E p \in Procs, g \in GroupIds : Load(p, g)
    \/ \E p \in Procs, a \in BOOLEAN, pts \in Points : Insert(p, a, pts)
    \/ \E p \in Procs : WriteParent(p)
    \/ \E p \in Procs : Refresh(p)
    \/ \E p \in Procs : SkipParent(p)
    \/ \E p \in Procs : ReadAggregate(p)
    \/ \E p \in Procs : SaveAggregates(p)

SpecResync == Init /\ [][NextResync]_vars

\* ------------------------------------- resync of maintained aggregates
\* Creates, saves and deletes of Members with both keys, and denormalize() of
\* a group or a team; nothing else writes the aggregate fields.
NextAgree ==
    \/ \E g \in ParentChoices, t \in TeamChoices, a \in BOOLEAN, pts \in Points :
          CreateMember(g, t, a, pts)
    \/ \E m \in MemberIds, g \in ParentChoices, t \in TeamChoices,
          a \in BOOLEAN, pts \in Points : UpdateMember(m, g, t, a, pts)
    \/ \E m \in MemberIds : Delete(m)
    \/ \E k \in ParentKeys : Denormalize(k[1], k[2])

SpecAgree == Init /\ [][NextAgree]_vars

\* ------------------------------------------------------------- properties
\* The children of group g the trackers' callback accepts (Member.active).
EligibleChildren(g) ==
    {k \in DOMAIN rows : rows[k].group = g /\ rows[k].active}

PointsOf(S) == {rows[k].points : k \in S}

RECURSIVE TrueSum(_)
TrueSum(S) ==
    IF S = {} THEN 0
    ELSE LET k == CHOOSE x \in S : TRUE IN rows[k].points + TrueSum(S \ {k})

TrueMin(S) ==
    IF S = {} THEN NULL
    ELSE CHOOSE v \in PointsOf(S) : \A w \in PointsOf(S) : v <= w

TrueMax(S) ==
    IF S = {} THEN NULL
    ELSE CHOOSE v \in PointsOf(S) : \A w \in PointsOf(S) : v >= w

\* The units of the last event that tracker field f of the group key produced
\* for parent p.
GroupUnits(f, p) ==
    {i \in 1..Len(last.units) : /\ last.units[i].fk = "group"
                                /\ last.units[i].field = f
                                /\ last.units[i].parent = p}

GroupFields == {GroupTrackers[i].field : i \in 1..Len(GroupTrackers)}

\* Tracker field f of the group key produced exactly one unit for parent p, in
\* mode `mode`.
OneUnit(f, p, mode) ==
    /\ Cardinality(GroupUnits(f, p)) = 1
    /\ \A i \in GroupUnits(f, p) : last.units[i].mode = mode

\* Tracker field f of the group key produced no unit for parent p.
NoUnit(f, p) == GroupUnits(f, p) = {}

SameParentUpdate ==
    /\ last.op = "update"
    /\ last.old.group = last.new.group

Move ==
    /\ last.op = "update"
    /\ last.old.group \in GroupIds
    /\ last.new.group \in GroupIds
    /\ last.old.group # last.new.group

\* C1: after every create, update (eligibility flip, parent change, both or
\* neither) and delete, each group's members_count is the number of its
\* active members.
CountExact ==
    \A g \in GroupIds :
        parents.group[g].members_count = Cardinality(EligibleChildren(g))

\* C1 witness: an update that changed the parent and flipped eligibility at
\* once has been handled, and its new parent counts the child.
CountExactWitness ==
    /\ Move
    /\ ~last.old.active
    /\ last.new.active
    /\ parents.group[last.new.group].members_count = 1
    /\ Cardinality(EligibleChildren(last.old.group)) = 1

\* C2: after every create, update and delete, each group's points_sum is the
\* sum of the points of its active members.
SumExact ==
    \A g \in GroupIds :
        parents.group[g].points_sum = TrueSum(EligibleChildren(g))

\* C3: after every create, update and delete, each group's points_min and
\* points_max are the least and greatest points of its active members, and
\* null when it has none.
MinMaxExact ==
    \A g \in GroupIds :
        /\ parents.group[g].points_min = TrueMin(EligibleChildren(g))
        /\ parents.group[g].points_max = TrueMax(EligibleChildren(g))

\* C3 witness: the child that held the minimum was deleted or raised its
\* value, and the stored minimum moved up to that of a remaining child.
MinMaxExactWitness ==
    /\ last.op \in {"delete", "update"}
    /\ last.old.active
    /\ last.old.group \in GroupIds
    /\ \E i \in 1..Len(last.units) :
          /\ last.units[i].field = "points_min"
          /\ last.units[i].parent = last.old.group
          /\ last.units[i].expr.op = "subquery"
    /\ parents.group[last.old.group].points_min # NULL
    /\ parents.group[last.old.group].points_min > last.old.points

\* C6: saving a child whose fields are all unchanged since the last save
\* writes no parent.
NoOpNoWrite ==
    (last.op = "update" /\ last.old = last.new) => last.writes = << >>

\* C7: moving a child that is eligible before and after from group A to
\* group B yields, for every tracker, exactly one LEAVING unit on A and
\* exactly one ENTERING unit on B, and nothing else.
MoveAtomicity ==
    (Move /\ last.old.active /\ last.new.active) =>
        /\ \A f \in GroupFields :
              /\ OneUnit(f, last.old.group, LEAVING)
              /\ OneUnit(f, last.new.group, ENTERING)
        /\ Len(last.units) = 2 * Cardinality(GroupFields)

\* C7 witness: such a move has been handled and both parents were written.
MoveAtomicityWitness ==
    /\ Move
    /\ last.old.active
    /\ last.new.active
    /\ Len(last.writes) = 2
    /\ parents.group[last.new.group].members_count = 1

\* C8: a move that also flips eligibility touches one parent only: the new
\* one (ENTERING) when the child becomes eligible, the old one (LEAVING) when
\* it stops being eligible; a child ineligible before and after touches none.
MoveWithFlip ==
    Move =>
        /\ (~last.old.active /\ last.new.active) =>
              /\ \A f \in GroupFields :
                    /\ OneUnit(f, last.new.group, ENTERING)
                    /\ NoUnit(f, last.old.group)
              /\ \A i \in 1..Len(last.writes) :
                    last.writes[i].parent = last.new.group
        /\ (last.old.active /\ ~last.new.active) =>
              /\ \A f \in GroupFields :
                    /\ OneUnit(f, last.old.group, LEAVING)
                    /\ NoUnit(f, last.new.group)
              /\ \A i \in 1..Len(last.writes) :
                    last.writes[i].parent = last.old.group
        /\ (~last.old.active /\ ~last.new.active) =>
              /\ last.units = << >>
              /\ last.writes = << >>

\* C8 witness: a child left its group and became ineligible in one save,
\* while another eligible child stays in the old group.
MoveWithFlipWitness ==
    /\ Move
    /\ last.old.active
    /\ ~last.new.active
    /\ Len(last.writes) = 1
    /\ parents.group[last.old.group].members_count = 1

\* C9: a child with a null group touches no aggregate on create, update or
\* delete; null -> P is a single ENTERING on P if eligible, P -> null a single
\* LEAVING on P if it was eligible; no unit ever targets a null parent.
NullParent ==
    /\ \A i \in 1..Len(last.units) : last.units[i].parent # NULL
    /\ \A i \in 1..Len(last.writes) : last.writes[i].parent # NULL
    /\ (last.op \in {"create", "delete"} /\ last.new.group = NULL) =>
          last.writes = << >>
    /\ (last.op = "update" /\ last.old.group = NULL /\ last.new.group = NULL) =>
          last.writes = << >>
    /\ (last.op = "update" /\ last.old.group = NULL
                           /\ last.new.group \in GroupIds) =>
          \A f \in GroupFields :
             IF last.new.active
             THEN /\ OneUnit(f, last.new.group, ENTERING)
                  /\ Len(last.units) = Cardinality(GroupFields)
             ELSE last.units = << >>
    /\ (last.op = "update" /\ last.old.group \in GroupIds
                           /\ last.new.group = NULL) =>
          \A f \in GroupFields :
             IF last.old.active
             THEN /\ OneUnit(f, last.old.group, LEAVING)
                  /\ Len(last.units) = Cardinality(GroupFields)
             ELSE last.units = << >>

\* C9 witness: an eligible child's group was set to null and its old group,
\* which keeps another child, was written once.
NullParentWitness ==
    /\ last.op = "update"
    /\ last.old.group \in GroupIds
    /\ last.new.group = NULL
    /\ last.old.active
    /\ Len(last.writes) = 1
    /\ parents.group[last.old.group].members_count = 1

\* C10: a save is classified against the state the row had before it, and
\* after the save the previous version equals the state just saved.
SnapshotResetOnSave ==
    [][ /\ last'.op = "update" => last'.old = rows[last'.pk]
        /\ last'.op \in {"create", "update"} =>
              prev'[last'.pk] = rows'[last'.pk] ]_vars

\* C10 witness: a single child was saved eligible and then ineligible again
\* under the same group, and the group's count is back to 0.
SnapshotResetWitness ==
    /\ steps = 3
    /\ nextpk = 2
    /\ SameParentUpdate
    /\ last.new.group \in GroupIds
    /\ last.old.active
    /\ ~last.new.active
    /\ prev[1] = rows[1]
    /\ parents.group[last.new.group].members_count = 0

\* The writers that created an eligible child of group g and whose UPDATE of
\* the group has been issued.
Incremented(g) ==
    {p \in Procs : /\ proc[p].pc \in {"written", "done"}
                   /\ proc[p].instance.group = g
                   /\ proc[p].instance.active}

\* C4: in every interleaving of the statements of concurrent "child created"
\* events, each group's stored count is the number of events for it whose
\* increment has been issued: no increment is lost.
NoLostUpdate ==
    \A g \in GroupIds :
        parents.group[g].members_count = Cardinality(Incremented(g))

\* C4 witness: two writers each created an eligible child of the same group,
\* both are done and the group counts both children.
NoLostUpdateWitness ==
    \E p \in Procs, q \in Procs :
        /\ p # q
        /\ proc[p].pc = "done"
        /\ proc[q].pc = "done"
        /\ proc[p].instance.group = proc[q].instance.group
        /\ proc[p].instance.active
        /\ proc[q].instance.active
        /\ parents.group[proc[p].instance.group].members_count >= 2

\* A writer's in-memory Group object does not show the stored count.
Stale(p) ==
    gobj[p][proc[p].instance.group].members_count #
        parents.group[proc[p].instance.group].members_count

\* C5: a creation made through an in-memory Group object whose count is stale
\* adds 1 to the stored count, not to the in-memory one.
NoDirtyIncrement ==
    [][ \A p \in Procs :
          (proc[p].pc = "inserted" /\ proc'[p].pc = "written" /\ Stale(p)) =>
              parents'.group[proc[p].instance.group].members_count =
                  parents.group[proc[p].instance.group].members_count + 1
      ]_vars

\* C5 witness: a writer has just written through a stale object: the stored
\* count is 2 while its own object, not yet refreshed, still shows 0.
NoDirtyIncrementWitness ==
    \E p \in Procs :
        /\ proc[p].pc = "written"
        /\ gobj[p][proc[p].instance.group].members_count = 0
        /\ parents.group[proc[p].instance.group].members_count = 2
        /\ Cardinality(EligibleChildren(proc[p].instance.group)) = 2

\* C11: whenever an update of a child is classified, its previous version is
\* the row as the store held it before this save.
SnapshotValid == last.op = "update" => last.old = last.stored

\* The children of parent p over key fk that a tracker's query selects, and
\* the aggregate of their points as a query over them returns it.
Selected(t, p) ==
    {k \in DOMAIN rows : rows[k][t.fk] = p /\ (t.query = "active" => rows[k].active)}

TrueAggregate(t, p) ==
    CASE t.aggregate = "count" -> Cardinality(Selected(t, p))
      [] t.aggregate = "sum" ->
            IF Selected(t, p) = {} THEN NULL ELSE TrueSum(Selected(t, p))
      [] t.aggregate = "min" -> TrueMin(Selected(t, p))
      [] t.aggregate = "max" -> TrueMax(Selected(t, p))

\* C12: after denormalize() on a parent, every tracked field of that key
\* holds the aggregate over the parent's current children matching the
\* tracker's query, exactly the tracked fields were saved in one UPDATE, and
\* no tracker produced an update.
Resync ==
    last.op = "denormalize" =>
        LET w == last.writes[1]
            trackers == TrackersOf(w.fk)
        IN /\ \A i \in 1..Len(trackers) :
                 parents[w.fk][w.parent][trackers[i].field] =
                    TrueAggregate(trackers[i], w.parent)
           /\ w.fields = {trackers[i].field : i \in 1..Len(trackers)}
           /\ \A f \in DOMAIN last.stored \ w.fields :
                 parents[w.fk][w.parent][f] = last.stored[f]
           /\ Len(last.writes) = 1
           /\ last.units = << >>

\* A resync of a group with an inactive child whose stored count and sum
\* were both wrong before it.
ResyncWitness ==
    /\ last.op = "denormalize"
    /\ last.writes[1].fk = "group"
    /\ \E k \in DOMAIN rows :
          rows[k].group = last.writes[1].parent /\ ~rows[k].active
    /\ last.stored.members_count #
          parents.group[last.writes[1].parent].members_count
    /\ last.stored.points_sum #
          parents.group[last.writes[1].parent].points_sum

\* C13: a tracker of an unsupported aggregate kind is refused when it is
\* declared, so that no lifecycle event ever fails at runtime with the
\* unsupported-kind error.
UnsupportedKindRejected == err # "NotImplementedError"

IncrementReloaded ==
    [][last'.op = "increment" /\ last'.new.group # NULL /\ last'.new.active
       /\ last'.old.group \in {NULL, last'.new.group}
       => LET g == last'.new.group
              m == last'.pk
              d == IF last'.old.active /\ last'.old.group = g
                   THEN rows'[m].points - rows[m].points
                   ELSE rows'[m].points
          IN /\ parents'.group[g].points_sum = parents.group[g].points_sum + d
             /\ \A i \in 1..Len(last'.units) :
                   (last'.units[i].fk = "group" /\
                    last'.units[i].field = "points_sum")
                   => last'.units[i].expr = FPlus(d)]_vars

\* An eligible child's points were incremented by an expression and its
\* group's sum followed.
IncrementWitness ==
    /\ last.op = "increment"
    /\ last.new.active /\ last.old.active
    /\ last.new.group # NULL /\ last.old.group = last.new.group
    /\ last.new.points = last.old.points + 1
    /\ parents.group[last.new.group].points_sum >= 1

\* The children of team t (the team key's trackers accept every child).
TeamChildren(t) == {k \in DOMAIN rows : rows[k].team = t}

\* Every parent's stored sum is the sum over its own eligible children.
SumsExact ==
    /\ \A g \in GroupIds : parents.group[g].points_sum = TrueSum(EligibleChildren(g))
    /\ \A t \in TeamIds : parents.team[t].points_sum = TrueSum(TeamChildren(t))

\* The team key alone: sum and count of every team are exact.
TeamExact ==
    \A t \in TeamIds :
        /\ parents.team[t].points_sum = TrueSum(TeamChildren(t))
        /\ parents.team[t].members_count = Cardinality(TeamChildren(t))

\* The last event was an update that changed the foreign key fk and nothing
\* else.
OnlyKeyChanged(fk) ==
    /\ last.op = "update"
    /\ last.new[fk] # last.old[fk]
    /\ \A f \in MemberFields \ {fk} : last.new[f] = last.old[f]

OtherKey(fk) == IF fk = "group" THEN "team" ELSE "group"

\* After an update that changed one key only, every ENTERING or LEAVING
\* update belongs to that key.
KeyUnitsOnly ==
    \A fk \in {"group", "team"} :
        OnlyKeyChanged(fk) =>
            \A i \in 1..Len(last.units) :
                last.units[i].mode # CHANGING => last.units[i].fk = fk

\* C16: with both keys tracked, after every operation each parent's sum is
\* the sum over its own eligible children, and an update that changes one
\* key only produces ENTERING/LEAVING updates for that key only and leaves
\* the other key's parents as they were.
KeysIndependent ==
    [][/\ SumsExact'
       /\ KeyUnitsOnly'
       /\ \A fk \in {"group", "team"} :
             OnlyKeyChanged(fk)' => parents'[OtherKey(fk)] = parents[OtherKey(fk)]
      ]_vars

\* The two halves of the claim that do not involve the group sum.
KeysIndependentButGroupSum ==
    [][/\ TeamExact'
       /\ KeyUnitsOnly'
       /\ \A fk \in {"group", "team"} :
             OnlyKeyChanged(fk)' => parents'[OtherKey(fk)] = parents[OtherKey(fk)]
      ]_vars

\* C17: when the store refuses a parent UPDATE of an event, the save or
\* delete that triggered it raises that failure; the parent UPDATEs of the
\* same event issued before it keep their effect (every increment they carry
\* is in the stored row), and no other parent row changes. An event none of
\* whose UPDATEs fails raises nothing.
StoreFailureRaised ==
    [][("failed" \in DOMAIN last' /\ last' # last) =>
        IF last'.failed = 0 THEN err' = "none"
        ELSE /\ err' = "DatabaseError"
             /\ Len(last'.writes) = last'.failed - 1
             /\ \A fk \in {"group", "team"} :
                   \A p \in DOMAIN parents[fk] :
                      IF \E i \in 1..Len(last'.writes) :
                            /\ last'.writes[i].fk = fk
                            /\ last'.writes[i].parent = p
                      THEN \A i \in 1..Len(last'.units) :
                              (/\ last'.units[i].fk = fk
                               /\ last'.units[i].parent = p
                               /\ last'.units[i].expr.op = "add")
                              => parents'[fk][p][last'.units[i].field] =
                                    parents[fk][p][last'.units[i].field]
                                       + last'.units[i].expr.arg
                      ELSE parents'[fk][p] = parents[fk][p]
      ]_vars

\* The second UPDATE of a move of an eligible child was refused after the
\* first, on the old group, had taken the child out.
StoreFailureWitness ==
    /\ "failed" \in DOMAIN last
    /\ last.failed = 2
    /\ err = "DatabaseError"
    /\ Len(last.writes) = 1
    /\ last.old.active /\ last.new.active
    /\ parents.group[last.old.group].members_count = 0
    /\ parents.group[last.new.group].members_count = 0

\* The transitions of the last event on the group key, as the classifier
\* defines them from the event, the previous and the new state: the parent
\* concerned and ENTERING, CHANGING or LEAVING.
Transition(p, mode) == [parent |-> p, mode |-> mode]

Transitions ==
    LET new == last.new
        old == last.old
    IN CASE last.op = "create" ->
              IF new.active /\ new.group # NULL
              THEN {Transition(new.group, ENTERING)} ELSE {}
         [] last.op = "delete" ->
              IF new.active /\ new.group # NULL
              THEN {Transition(new.group, LEAVING)} ELSE {}
         [] last.op = "update" /\ new.group = old.group ->
              IF new.group = NULL THEN {}
              ELSE IF new.active /\ ~old.active
              THEN {Transition(new.group, ENTERING)}
              ELSE IF ~new.active /\ old.active
              THEN {Transition(new.group, LEAVING)}
              ELSE IF new.active THEN {Transition(new.group, CHANGING)}
              ELSE {}
         [] last.op = "update" /\ new.group # old.group ->
              (IF old.active /\ old.group # NULL
               THEN {Transition(old.group, LEAVING)} ELSE {})
              \cup
              (IF new.active /\ new.group # NULL
               THEN {Transition(new.group, ENTERING)} ELSE {})
         [] OTHER -> {}

\* Tracker field f produced exactly one unit for parent p, with update
\* expression expr.
OneUnitWith(f, p, expr) ==
    /\ Cardinality(GroupUnits(f, p)) = 1
    /\ \A i \in GroupUnits(f, p) : last.units[i].expr = expr

\* The COUNT and SUM rules applied to every transition of the last event,
\* with `leaving` the amount a LEAVING takes out of the sum; a parent with no
\* transition gets no count or sum update.
DeltaRulesWith(leaving) ==
    /\ \A tr \in Transitions :
          /\ IF tr.mode = CHANGING THEN NoUnit("members_count", tr.parent)
             ELSE OneUnitWith("members_count", tr.parent, FPlus(tr.mode))
          /\ CASE tr.mode = ENTERING ->
                    OneUnitWith("points_sum", tr.parent, FPlus(last.new.points))
               [] tr.mode = LEAVING ->
                    OneUnitWith("points_sum", tr.parent, FPlus(0 - leaving))
               [] tr.mode = CHANGING ->
                    IF last.new.points - last.old.points = 0
                    THEN NoUnit("points_sum", tr.parent)
                    ELSE OneUnitWith("points_sum", tr.parent,
                                     FPlus(last.new.points - last.old.points))
    /\ \A g \in GroupIds :
          (\A tr \in Transitions : tr.parent # g)
          => NoUnit("members_count", g) /\ NoUnit("points_sum", g)

\* C18 as stated: COUNT +1 on ENTERING, -1 on LEAVING, nothing on CHANGING;
\* SUM plus the new state's value on ENTERING, minus the new state's value on
\* every LEAVING, plus new - old on CHANGING and nothing when that is 0.
DeltaRules ==
    last.op \in {"create", "update", "delete"} => DeltaRulesWith(last.new.points)

\* C18 amended: as stated, but the LEAVING half of a move takes the previous
\* state's value out of the old parent's sum.
DeltaRulesAmended ==
    last.op \in {"create", "update", "delete"} =>
        DeltaRulesWith(IF last.op = "update" /\ last.new.group # last.old.group
                       THEN last.old.points ELSE last.new.points)

\* An eligible child changed its points and its group in one save, and the
\* old group's sum was reduced.
DeltaRulesWitness ==
    /\ Move
    /\ last.old.active
    /\ last.new.active
    /\ last.old.points # last.new.points
    /\ OneUnit("points_sum", last.old.group, LEAVING)
    /\ OneUnit("members_count", last.new.group, ENTERING)

\* The MIN (least = TRUE) or MAX rule for one transition of the event just
\* handled: the update expression the tracker produced for field f and the
\* value the parent's row holds afterwards, given the value `cur` it held
\* before and the extreme `truth` of the parent's eligible children now.
ExtremeRule(tr, f, least, cur, truth) ==
    LET v == last.new.points
        o == last.old.points
        towards == IF least THEN v < o ELSE v > o
        away == IF least THEN v > o ELSE v < o
        incremental == IF least THEN CoalesceLeast(v) ELSE CoalesceGreatest(v)
        stored == parents.group[tr.parent][f]
    IN CASE tr.mode = ENTERING \/ (tr.mode = CHANGING /\ towards) ->
              /\ OneUnitWith(f, tr.parent, incremental)
              /\ stored = IF cur = NULL THEN v
                          ELSE IF least THEN Least(cur, v) ELSE Greatest(cur, v)
         [] tr.mode = LEAVING ->
              /\ OneUnitWith(f, tr.parent, FullAggregate(last.pk))
              /\ stored = truth
         [] tr.mode = CHANGING /\ away ->
              /\ OneUnitWith(f, tr.parent, FullAggregate(NULL))
              /\ stored = truth
         [] OTHER -> TRUE

\* C19: for MIN, ENTERING and a CHANGING that lowers the value store
\* min(current, new), or new when the current aggregate is null; every
\* LEAVING and every CHANGING that raises the value store the minimum over
\* the parent's currently eligible children, the leaving record excluded;
\* MAX likewise with the directions reversed.
MinMaxRules ==
    [][(last' # last /\ last'.op \in {"create", "update", "delete"}) =>
        \A g \in GroupIds :
            \A cur_min \in {parents.group[g].points_min} :
            \A cur_max \in {parents.group[g].points_max} :
            \A mode \in {ENTERING, CHANGING, LEAVING} :
                (Transition(g, mode) \in Transitions
                 => /\ ExtremeRule(Transition(g, mode), "points_min", TRUE,
                                   cur_min, TrueMin(EligibleChildren(g)))
                    /\ ExtremeRule(Transition(g, mode), "points_max", FALSE,
                                   cur_max, TrueMax(EligibleChildren(g))))'
      ]_vars

\* An eligible child lowered its points next to another eligible child of
\* its group: the minimum was updated in place, the maximum recomputed.
MinMaxRulesWitness ==
    /\ SameParentUpdate
    /\ last.old.active
    /\ last.new.active
    /\ last.new.points < last.old.points
    /\ Cardinality(EligibleChildren(last.new.group)) = 2
    /\ OneUnitWith("points_max", last.new.group, FullAggregate(NULL))
    /\ OneUnitWith("points_min", last.new.group, CoalesceLeast(last.new.points))

\* C20: an update that keeps the parent and the eligibility of a child gives,
\* for an eligible child, CHANGING updates of that parent only (one from
\* each tracker that has something to write for a CHANGING: always the MIN
\* and MAX trackers, the SUM tracker when the value differs, never the
\* COUNT tracker) and nothing at all for an ineligible child, whatever its
\* value did; an update that keeps the parent and changes the eligibility
\* gives exactly one update per tracker, ENTERING if the child is now
\* eligible and LEAVING otherwise.
SameParentRules ==
    (SameParentUpdate /\ last.new.group # NULL) =>
        LET g == last.new.group
        IN IF last.new.active = last.old.active
           THEN IF last.new.active
                THEN /\ \A i \in 1..Len(last.units) :
                           /\ last.units[i].parent = g
                           /\ last.units[i].mode = CHANGING
                     /\ \A f \in GroupFields : Cardinality(GroupUnits(f, g)) <= 1
                     /\ OneUnit("points_min", g, CHANGING)
                     /\ OneUnit("points_max", g, CHANGING)
                     /\ NoUnit("members_count", g)
                     /\ NoUnit("points_sum", g) <=>
                           last.new.points = last.old.points
                ELSE last.units = << >> /\ last.writes = << >>
           ELSE /\ \A f \in GroupFields :
                      OneUnit(f, g, IF last.new.active THEN ENTERING
                                    ELSE LEAVING)
                /\ Len(last.units) = Cardinality(GroupFields)

\* An ineligible child changed its points under the same group and nothing
\* was written, next to an eligible child of that group.
SameParentRulesWitness ==
    /\ SameParentUpdate
    /\ last.new.group # NULL
    /\ ~last.old.active
    /\ ~last.new.active
    /\ last.new.points # last.old.points
    /\ last.writes = << >>
    /\ EligibleChildren(last.new.group) # {}

\* C21: within one save of an existing child the receivers of all tracked
\* keys read the same previous version, the one the instance held when the
\* save began; the previous version is replaced only after every receiver
\* has run and written its parents, and once per save.
SnapshotOrder ==
    "pending" \in DOMAIN last =>
        /\ \A i \in 1..Len(last.seen) : last.seen[i] = last.old
        /\ Len(last.seen) = Len(TrackedKeys) - Len(last.pending)
        /\ last.resets = 0 => prev[last.pk] = last.old
        /\ last.resets > 0 => last.pending = << >>
        /\ last.resets <= 1
        /\ Idle => last.resets = 1 /\ prev[last.pk] = last.new

\* A save that moved an eligible child to another group and another team has
\* returned: both receivers wrote and the previous version was replaced.
SnapshotOrderWitness ==
    /\ "pending" \in DOMAIN last
    /\ Idle
    /\ last.old.active /\ last.new.active
    /\ last.old.group # NULL /\ last.new.group # NULL
    /\ last.old.group # last.new.group
    /\ last.old.team # last.new.team
    /\ \E i \in 1..Len(last.writes) : last.writes[i].fk = "group"
    /\ \E i \in 1..Len(last.writes) : last.writes[i].fk = "team"
    /\ Len(last.seen) = 2
    /\ last.resets = 1

\* The writes and the units the receiver of key fk has recorded for the
\* event.
KeyWrites(fk) == {i \in 1..Len(last.writes) : last.writes[i].fk = fk}
KeyUnits(fk) == {k \in 1..Len(last.units) : last.units[k].fk = fk}

\* C22: for one event and one tracked key, each distinct parent is written
\* at most once; a write names exactly the fields for which a tracker of the
\* key produced an update of that parent, so every parent with an update is
\* written and none without; and a parent of the key for which no tracker
\* produced an update keeps its stored row.
CoalescedWrites ==
    [][\A fk \in {TrackedKeys[i] : i \in 1..Len(TrackedKeys)} :
          /\ (\A i, j \in KeyWrites(fk) :
                 last.writes[i].parent = last.writes[j].parent => i = j)'
          /\ (\A i \in KeyWrites(fk) :
                 /\ last.writes[i].fields # {}
                 /\ last.writes[i].fields =
                       {last.units[k].field :
                          k \in {n \in KeyUnits(fk) :
                                   last.units[n].parent = last.writes[i].parent}})'
          /\ (\A k \in KeyUnits(fk) :
                 \E i \in KeyWrites(fk) :
                    last.writes[i].parent = last.units[k].parent)'
          /\ \A p \in DOMAIN parents[fk] :
                (\A k \in KeyUnits(fk) : last.units[k].parent # p)'
                => parents'[fk][p] = parents[fk][p]
      ]_vars

\* The group receiver has handled the move of an eligible child: one write
\* to the old group and one to the new, each naming all four fields.
CoalescedWritesWitness ==
    /\ "pending" \in DOMAIN last
    /\ last.old.group # last.new.group
    /\ Cardinality(KeyWrites("group")) = 2
    /\ \A i \in KeyWrites("group") : last.writes[i].fields = GroupFields
    /\ Cardinality(KeyUnits("group")) = 2 * Cardinality(GroupFields)

\* The fields writer p's UPDATE names.
WrittenFields(p) == {proc[p].units[i].field : i \in 1..Len(proc[p].units)}

\* The writers whose UPDATE of group g naming field f has been issued.
WritersOf(g, f) ==
    {p \in FrameProcs : /\ proc[p].pc \in {"written", "done"}
                        /\ proc[p].instance.group = g
                        /\ f \in WrittenFields(p)}

\* Field f of group g holds the aggregate over the children of exactly the
\* writers that wrote it (its default while there is none).
Survives(g, t) ==
    parents.group[g][t.field] =
        IF WritersOf(g, t.field) = {} THEN NewGroup[t.field]
        ELSE Aggregate(t.aggregate, rows,
                       {proc[p].instance.pk : p \in WritersOf(g, t.field)})

\* C23: an UPDATE issued by update_object changes, in the store, only the
\* fields of the written group for which a tracker produced a unit; its other
\* fields, the other groups and the teams keep their values. So in every
\* interleaving each field holds the effect of all the writes that named it,
\* whatever was written to the other fields meanwhile.
WriteFrame ==
    [][/\ \A g \in GroupIds : \A f \in DOMAIN NewGroup :
             parents'.group[g][f] # parents.group[g][f] =>
                 \E p \in FrameProcs :
                    /\ proc[p].pc = "inserted"
                    /\ proc'[p].pc = "written"
                    /\ proc[p].instance.group = g
                    /\ f \in WrittenFields(p)'
       /\ parents'.team = parents.team
       /\ (\A g \in GroupIds : \A i \in 1..Len(GroupTrackers) :
              Survives(g, GroupTrackers[i]))'
      ]_vars

\* Two writers are done with the same group, one wrote only its count and
\* the other only its minimum, and the group shows both.
WriteFrameWitness ==
    \E p \in FrameProcs, q \in FrameProcs :
        /\ proc[p].pc = "done"
        /\ proc[q].pc = "done"
        /\ "units" \in DOMAIN proc[p]
        /\ "units" \in DOMAIN proc[q]
        /\ proc[p].instance.group = proc[q].instance.group
        /\ WrittenFields(p) = {"members_count"}
        /\ WrittenFields(q) = {"points_min"}
        /\ parents.group[proc[p].instance.group].members_count = 1
        /\ parents.group[proc[p].instance.group].points_min =
              proc[q].instance.points

\* Every writer is before its first or after its last statement.
Quiescent == \A p \in Procs : proc[p].pc \in {"idle", "done", "resynced"}

\* C24: once a denormalize() of a group and the creation of an eligible child
\* of that group have both finished, whatever the order of their statements,
\* the group's stored count is the number of its eligible children.
ResyncCountExact ==
    \A p \in Procs, q \in Procs :
        (/\ Quiescent
         /\ proc[p].pc = "resynced"
         /\ proc[q].pc = "done"
         /\ proc[q].instance.active
         /\ proc[q].instance.group = proc[p].instance.group)
        => parents.group[proc[p].instance.group].members_count =
              Cardinality(EligibleChildren(proc[p].instance.group))

\* The tracker's query selects exactly the children its callback accepts.
QueryIsCallback(t) == (t.query = "active") <=> (t.callback = "active")

\* denormalize() has just run on parent p of key fk and left the field of
\* every tracker whose query is its callback as it was.
Unchanged(fk, p) ==
    \A i \in 1..Len(TrackersOf(fk)) :
        QueryIsCallback(TrackersOf(fk)[i]) =>
            parents'[fk][p][TrackersOf(fk)[i].field] =
                parents[fk][p][TrackersOf(fk)[i].field]

\* C25: on a parent whose fields only the receivers have written since its
\* creation, denormalize() leaves the field of every tracker whose query
\* selects what its callback accepts with the value it had, also on a parent
\* without eligible children.
ResyncAgrees ==
    [][(steps' # steps /\ last'.op = "denormalize") =>
          Unchanged(last'.writes[1].fk, last'.writes[1].parent)
      ]_vars

====
